---- MODULE Spec2Model ----
(***************************************************************************)
(* Model of bin/bsv-app.js, the create-bsv-app scaffolding CLI.            *)
(*                                                                         *)
(* One process runs run() from top to bottom.  pc is the place where the   *)
(* process currently is: either blocked in a synchronous child process     *)
(* (execSync), suspended on the event loop (await of real I/O), or about   *)
(* to execute a synchronous step.  The environment chooses the outcome of  *)
(* every external collaborator (git, npm, the prompt renderer) and may     *)
(* deliver SIGINT at any time.                                             *)
(***************************************************************************)
EXTENDS Integers, Sequences, FiniteSets, TLC

VARIABLES
    pc,            \* position of run()
    argv,          \* flags given on the command line (fixed for the run)
    options,       \* program.opts(), set by program.parse
    template,      \* let template
    projectName,   \* let projectName
    authorName,    \* let authorName
    remote,        \* content of the template repository (external)
    fs,            \* entries of process.cwd(): name -> tree
    dirIdx,        \* which directory installDependencies is working on
    invoked,       \* external invocations made so far, in order
    console,       \* messages printed so far, in order
    exitCode,      \* exit code of the process, meaningful once pc = "exited"
    sigintPending, \* a SIGINT has been delivered and its handler not yet run
    sigints,       \* number of SIGINTs delivered
    other          \* a second instance of the tool in the same directory

vars == <<pc, argv, options, template, projectName, authorName, remote, fs,
          dirIdx, invoked, console, exitCode, sigintPending, sigints, other>>

----------------------------------------------------------------------------
(* Bounds and input domains *)

MaxSigints == 1

Undefined == "<undefined>"

\* names the user can type at the project-name prompt (validate: length > 0)
ProjectNames == {"bsv-app", "foo"}
\* names the user can type at the author prompt (default '')
AuthorNames == {"", "bar"}

PromptErrors == {"isTtyError", "forceClosed", "other"}

----------------------------------------------------------------------------
(* Program constants *)

\* const templates = { label: url }
templates ==
    [l \in {"Meter - A feature-packed starting point"} |->
        "https://github.com/p2ppsr/meter.git"]

\* templates[template]: a missing key reads as undefined
TemplateUrl(t) == IF t \in DOMAIN templates THEN templates[t] ELSE Undefined

\* writeJsonSync(..., { spaces: 2 })
Spaces == 2

\* the directories installDependencies visits, in its order
InstallDirs == <<"root", "frontend", "backend">>

----------------------------------------------------------------------------
(* The file system *)

Obj(keys, name, author) ==
    [k \in keys |-> IF k = "name" THEN name
                    ELSE IF k = "author" THEN author ELSE "1.0.0"]

NoManifest == [kind |-> "none", obj |-> Obj({}, "", ""), spaces |-> 0]
InvalidManifest == [kind |-> "invalid", obj |-> Obj({}, "", ""), spaces |-> 0]
Manifest(keys, name, author, sp) ==
    [kind |-> "json", obj |-> Obj(keys, name, author), spaces |-> sp]

\* package.json files a template repository may carry
RemoteManifests ==
    { NoManifest, InvalidManifest,
      Manifest({"name", "version"}, "x", "", 2),
      Manifest({"name", "version", "author"}, "meter", "p2ppsr", 4) }

SubDirStates == {"absent", "nomanifest", "manifest"}

AbsentTree ==
    [state |-> "absent", git |-> "none", manifest |-> NoManifest,
     frontend |-> "absent", backend |-> "absent", installed |-> {}]

\* a directory that was there before the tool started
PreExistingTree ==
    [state |-> "preexisting", git |-> "inherited",
     manifest |-> Manifest({"name", "version"}, "old", "", 2),
     frontend |-> "manifest", backend |-> "absent", installed |-> {}]

\* what git clone leaves in the target: the remote's files and its .git
ClonedTree(r) ==
    [state |-> "cloned", git |-> "inherited", manifest |-> r.manifest,
     frontend |-> r.frontend, backend |-> r.backend, installed |-> {}]

\* fs.existsSync(dir) for the directories of InstallDirs
DirExists(tree, d) ==
    CASE d = "root" -> tree.state # "absent"
      [] d = "frontend" -> tree.frontend # "absent"
      [] d = "backend" -> tree.backend # "absent"

\* the manifest looked up in the project root whatever the directory
PackageJsonExists_RootOnly(tree, d) == tree.manifest.kind # "none"

\* fs.existsSync(path.join(dir, 'package.json'))
PackageJsonExists(tree, d) ==
    CASE d = "root" -> tree.manifest.kind # "none"
      [] d = "frontend" -> tree.frontend = "manifest"
      [] d = "backend" -> tree.backend = "manifest"

----------------------------------------------------------------------------
(* Small steps shared by the actions *)

Invoke(what) == invoked' = Append(invoked, what)
Log(msg) == console' = Append(console, msg)

\* console message followed by process.exit(code)
Exit(code, msg) ==
    /\ pc' = "exited"
    /\ exitCode' = code
    /\ Log(msg)

\* places where run() is suspended on the event loop, so that the SIGINT
\* listener can run
Suspended ==
    {"import", "promptTemplate", "promptName", "promptAuthor",
     "cloning", "gitInit", "rejected"}

PromptPcs == {"promptTemplate", "promptName", "promptAuthor"}

----------------------------------------------------------------------------
\* no second instance is running
NoOther == [pc |-> "none", projectName |-> Undefined]

\* the process after its start
InitRun ==
    /\ pc = "import"
    /\ argv \in [skipInstall : BOOLEAN, gitInit : BOOLEAN, yes : BOOLEAN]
    /\ options = [skipInstall |-> FALSE, gitInit |-> FALSE, yes |-> FALSE]
    /\ template = Undefined
    /\ projectName = Undefined
    /\ authorName = Undefined
    /\ remote \in [manifest : RemoteManifests,
                   frontend : SubDirStates, backend : SubDirStates]
    /\ fs \in [ProjectNames -> {AbsentTree, PreExistingTree}]
    /\ dirIdx = 0
    /\ invoked = << >>
    /\ console = << >>
    /\ exitCode = 0
    /\ sigintPending = FALSE
    /\ sigints = 0

\* one instance of the tool
Init == InitRun /\ other = NoOther

\* two instances of the tool started in the same working directory; the
\* second one is followed from its target check to the end of its clone
InitTwo ==
    /\ InitRun
    /\ other \in [pc : {"targetCheck"}, projectName : ProjectNames]

----------------------------------------------------------------------------
(* Preflight *)

\* lines 19-20, 108-115: the dynamic imports resolve, the banner is printed
\* and checkGitInstalled starts execSync('git --version')
Start ==
    /\ pc = "import"
    /\ ~sigintPending
    /\ pc' = "checkGit"
    /\ Invoke("git --version")
    /\ Log("banner")
    /\ UNCHANGED <<other, argv, options, template, projectName, authorName, remote,
                   fs, dirIdx, exitCode, sigintPending, sigints>>

\* the catch reporting the missing tool without ending the process
checkGitInstalled_NoExit(ok) ==
    /\ pc = "checkGit"
    /\ pc' = "checkNpm"
    /\ Invoke("npm --version")
    /\ IF ok THEN UNCHANGED console ELSE Log("error: git not installed")
    /\ UNCHANGED <<other, argv, options, template, projectName, authorName, remote,
                   fs, dirIdx, exitCode, sigintPending, sigints>>

\* lines 29-38, and 41-42 when git is there
checkGitInstalled(ok) ==
    /\ pc = "checkGit"
    /\ IF ok
       THEN /\ pc' = "checkNpm"
            /\ Invoke("npm --version")
            /\ UNCHANGED <<console, exitCode>>
       ELSE /\ Exit(1, "error: git not installed")
            /\ UNCHANGED invoked
    /\ UNCHANGED <<other, argv, options, template, projectName, authorName, remote,
                   fs, dirIdx, sigintPending, sigints>>

checkNpmInstalled(ok) ==
    /\ pc = "checkNpm"
    /\ IF ok
       THEN /\ pc' = "parse"
            /\ UNCHANGED <<console, exitCode>>
       ELSE Exit(1, "error: npm not installed")
    /\ UNCHANGED <<other, argv, options, template, projectName, authorName, remote,
                   fs, dirIdx, invoked, sigintPending, sigints>>

\* lines 118-124
ParseOptions ==
    /\ pc = "parse"
    /\ options' = argv
    /\ pc' = "interaction"
    /\ UNCHANGED <<other, argv, template, projectName, authorName, remote, fs,
                   dirIdx, invoked, console, exitCode, sigintPending, sigints>>

----------------------------------------------------------------------------
(* Interaction flow, lines 128-177 *)

\* if (options.yes) { ... }
UseDefaults ==
    /\ pc = "interaction"
    /\ options.yes
    /\ template' = "meter"
    /\ projectName' = "bsv-app"
    /\ authorName' = ""
    /\ pc' = "targetCheck"
    /\ UNCHANGED <<other, argv, options, remote, fs, dirIdx, invoked, console,
                   exitCode, sigintPending, sigints>>

\* the prompts shown whatever --yes says
AskTemplate_Unguarded ==
    /\ pc = "interaction"
    /\ Invoke("prompt template")
    /\ pc' = "promptTemplate"
    /\ UNCHANGED <<other, argv, options, template, projectName, authorName, remote,
                   fs, dirIdx, console, exitCode, sigintPending, sigints>>

\* else: the first inquirer.prompt is shown
AskTemplate ==
    /\ pc = "interaction"
    /\ ~options.yes
    /\ Invoke("prompt template")
    /\ pc' = "promptTemplate"
    /\ UNCHANGED <<other, argv, options, template, projectName, authorName, remote,
                   fs, dirIdx, console, exitCode, sigintPending, sigints>>

AnswerTemplate(choice) ==
    /\ pc = "promptTemplate"
    /\ ~sigintPending
    /\ template' = choice
    /\ Invoke("prompt projectName")
    /\ pc' = "promptName"
    /\ UNCHANGED <<other, argv, options, projectName, authorName, remote, fs,
                   dirIdx, console, exitCode, sigintPending, sigints>>

AnswerProjectName(input) ==
    /\ pc = "promptName"
    /\ ~sigintPending
    /\ projectName' = input
    /\ Invoke("prompt authorName")
    /\ pc' = "promptAuthor"
    /\ UNCHANGED <<other, argv, options, template, authorName, remote, fs,
                   dirIdx, console, exitCode, sigintPending, sigints>>

AnswerAuthorName(input) ==
    /\ pc = "promptAuthor"
    /\ ~sigintPending
    /\ authorName' = input
    /\ pc' = "targetCheck"
    /\ UNCHANGED <<other, argv, options, template, projectName, remote, fs,
                   dirIdx, invoked, console, exitCode, sigintPending, sigints>>

\* the catch ending the process with the failure code, as every other catch
PromptCatch_ExitOne(error) ==
    /\ pc \in PromptPcs
    /\ ~sigintPending
    /\ Exit(1, CASE error = "isTtyError" -> "error: prompt could not be rendered"
                 [] error = "forceClosed" -> "goodbye (prompt closed)"
                 [] OTHER -> "error: unexpected prompt error")
    /\ UNCHANGED <<other, argv, options, template, projectName, authorName, remote,
                   fs, dirIdx, invoked, sigintPending, sigints>>

\* catch (error) { ... process.exit(0) }
PromptCatch(error) ==
    /\ pc \in PromptPcs
    /\ ~sigintPending
    /\ Exit(0, CASE error = "isTtyError" -> "error: prompt could not be rendered"
                 [] error = "forceClosed" -> "goodbye (prompt closed)"
                 [] OTHER -> "error: unexpected prompt error")
    /\ UNCHANGED <<other, argv, options, template, projectName, authorName, remote,
                   fs, dirIdx, invoked, sigintPending, sigints>>

----------------------------------------------------------------------------
(* Project materializer, lines 179-217 *)

\* the existence check forgotten
TargetExists_Never == FALSE

\* fs.existsSync(projectDir)
TargetExists == fs[projectName].state # "absent"

\* lines 179-186 and 52-55: the target check; when the target is free
\* cloneTemplate starts git.clone(templates[template], projectDir)
TargetCheck ==
    /\ pc = "targetCheck"
    /\ IF TargetExists
       THEN /\ Exit(1, "error: directory already exists")
            /\ invoked' = invoked \o <<"existsSync projectDir">>
       ELSE /\ pc' = "cloning"
            /\ invoked' = invoked \o <<"existsSync projectDir", "git clone">>
            /\ Log("cloning repository")
            /\ UNCHANGED exitCode
    /\ UNCHANGED <<other, argv, options, template, projectName, authorName, remote,
                   fs, dirIdx, sigintPending, sigints>>

\* the catch ending the process with the success code
CloneCatch_ExitZero == Exit(0, "error: cloning repository")

\* lines 57-60: catch of cloneTemplate
CloneCatch == Exit(1, "error: cloning repository")

\* lines 55-60: git.clone settles.  A clone of an undefined location never
\* succeeds (the client rejects a repoPath that is not a string).
cloneTemplate(ok) ==
    /\ pc = "cloning"
    /\ ~sigintPending
    /\ IF ok
       THEN /\ TemplateUrl(template) # Undefined
            /\ fs' = [fs EXCEPT ![projectName] = ClonedTree(remote)]
            /\ pc' = "strip"
            /\ Log("repository cloned")
            /\ UNCHANGED exitCode
       ELSE /\ CloneCatch
            /\ UNCHANGED fs
    /\ UNCHANGED <<other, argv, options, template, projectName, authorName, remote,
                   dirIdx, invoked, sigintPending, sigints>>

\* the cloned .git left where it is
HistoryStrip_Keep(ok) ==
    /\ pc = "strip"
    /\ pc' = IF ok THEN "customize" ELSE "rejected"
    /\ UNCHANGED <<other, argv, options, template, projectName, authorName,
                   remote, fs, dirIdx, invoked, console, exitCode,
                   sigintPending, sigints>>

\* lines 188-191: fs.removeSync(gitDir) either removes .git or throws, and a
\* throw here is not caught inside run()
HistoryStrip(ok) ==
    /\ pc = "strip"
    /\ IF fs[projectName].git # "none"
       THEN IF ok
            THEN /\ fs' = [fs EXCEPT ![projectName].git = "none"]
                 /\ pc' = "customize"
            ELSE /\ pc' = "rejected"
                 /\ UNCHANGED fs
       ELSE /\ ok
            /\ pc' = "customize"
            /\ UNCHANGED fs
    /\ UNCHANGED <<other, argv, options, template, projectName, authorName, remote,
                   dirIdx, invoked, console, exitCode, sigintPending, sigints>>

\* the author set without testing that it is non-empty
Customizations_AlwaysAuthor(pName, aName) ==
    [k \in {"name", "author"} |-> IF k = "name" THEN pName ELSE aName]

\* lines 193-195: the customizations object
Customizations(pName, aName) ==
    [k \in (IF pName # "" THEN {"name"} ELSE {}) \cup
           (IF aName # "" THEN {"author"} ELSE {}) |->
        IF k = "name" THEN pName ELSE aName]

\* lines 100-102: packageJson[key] = customizations[key] for every key
ApplyCustomizations(packageJson, customizations) ==
    [k \in DOMAIN packageJson \cup DOMAIN customizations |->
        IF k \in DOMAIN customizations
        THEN customizations[k] ELSE packageJson[k]]

\* fs.writeJsonSync(path, obj, { spaces: 2 })
writeJsonSync(obj) == [kind |-> "json", obj |-> obj, spaces |-> Spaces]

\* the --skip-install flag ignored
AfterCustomize_AlwaysInstall == "install"

\* line 199: what follows the customization
AfterCustomize == IF options.skipInstall THEN "gitInitCheck" ELSE "install"

\* lines 96-106 and 193-199.  readJsonSync throws on a file that is not
\* JSON, and the throw is not caught inside run()
customizePackageJson ==
    /\ pc = "customize"
    /\ LET m == fs[projectName].manifest IN
       CASE m.kind = "none" ->
              /\ pc' = AfterCustomize
              /\ dirIdx' = IF AfterCustomize = "install" THEN 1 ELSE dirIdx
              /\ UNCHANGED <<fs, console>>
         [] m.kind = "invalid" ->
              /\ pc' = "rejected"
              /\ UNCHANGED <<fs, console, dirIdx>>
         [] m.kind = "json" ->
              /\ fs' = [fs EXCEPT ![projectName].manifest =
                          writeJsonSync(ApplyCustomizations(m.obj,
                              Customizations(projectName, authorName)))]
              /\ Log("modified package.json")
              /\ pc' = AfterCustomize
              /\ dirIdx' = IF AfterCustomize = "install" THEN 1 ELSE dirIdx
    /\ UNCHANGED <<other, argv, options, template, projectName, authorName, remote,
                   invoked, exitCode, sigintPending, sigints>>

----------------------------------------------------------------------------
(* Dependency installation, lines 63-94 *)

NpmInstallIn(d) ==
    CASE d = "root" -> "npm install (root)"
      [] d = "frontend" -> "npm install (frontend)"
      [] d = "backend" -> "npm install (backend)"

NoPackageJsonIn(d) ==
    CASE d = "root" -> "warning: no package.json (root)"
      [] d = "frontend" -> "warning: no package.json (frontend)"
      [] d = "backend" -> "warning: no package.json (backend)"

\* lines 81, 87, 91: installInDir is called for the root always and for
\* frontend and backend when the directory exists
InstallInDirCalled(tree, d) == d = "root" \/ DirExists(tree, d)

\* the step after the directory InstallDirs[dirIdx] is dealt with
NextDir ==
    IF dirIdx < Len(InstallDirs)
    THEN /\ dirIdx' = dirIdx + 1
         /\ pc' = "install"
    ELSE /\ dirIdx' = dirIdx
         /\ pc' = "gitInitCheck"

\* lines 64-69, 75-77: installInDir up to the start of execSync('npm install')
installInDir ==
    /\ pc = "install"
    /\ LET d == InstallDirs[dirIdx]
           tree == fs[projectName] IN
       IF InstallInDirCalled(tree, d)
       THEN IF PackageJsonExists(tree, d)
            THEN /\ Invoke(NpmInstallIn(d))
                 /\ Log("installing dependencies")
                 /\ pc' = "npm"
                 /\ UNCHANGED dirIdx
            ELSE /\ Log(NoPackageJsonIn(d))
                 /\ NextDir
                 /\ UNCHANGED invoked
       ELSE /\ NextDir
            /\ UNCHANGED <<invoked, console>>
    /\ UNCHANGED <<other, argv, options, template, projectName, authorName, remote,
                   fs, exitCode, sigintPending, sigints>>

\* the catch reporting the failure without ending the process
InstallCatch_Continue ==
    /\ Log("error: installing dependencies")
    /\ NextDir
    /\ UNCHANGED exitCode

\* lines 71-74: catch of installInDir
InstallCatch ==
    /\ Exit(1, "error: installing dependencies")
    /\ UNCHANGED dirIdx

\* lines 69-74: execSync('npm install') returns or throws
NpmInstallExit(ok) ==
    /\ pc = "npm"
    /\ IF ok
       THEN /\ fs' = [fs EXCEPT ![projectName].installed =
                         @ \cup {InstallDirs[dirIdx]}]
            /\ Log("dependencies installed")
            /\ NextDir
            /\ UNCHANGED exitCode
       ELSE /\ InstallCatch
            /\ UNCHANGED fs
    /\ UNCHANGED <<other, argv, options, template, projectName, authorName, remote,
                   invoked, sigintPending, sigints>>

----------------------------------------------------------------------------
(* Source-control reinitialization and completion, lines 203-217 *)

\* git.init() started whatever --git-init says
GitInitStart_Always ==
    /\ pc = "gitInitCheck"
    /\ Invoke("git init")
    /\ Log("initializing git repository")
    /\ pc' = "gitInit"
    /\ UNCHANGED <<other, argv, options, template, projectName, authorName, remote,
                   fs, dirIdx, exitCode, sigintPending, sigints>>

\* lines 203-207: git.init() is started when --git-init was given
GitInitStart ==
    /\ pc = "gitInitCheck"
    /\ IF options.gitInit
       THEN /\ Invoke("git init")
            /\ Log("initializing git repository")
            /\ pc' = "gitInit"
       ELSE /\ pc' = "complete"
            /\ UNCHANGED <<invoked, console>>
    /\ UNCHANGED <<other, argv, options, template, projectName, authorName, remote,
                   fs, dirIdx, exitCode, sigintPending, sigints>>

\* the catch reporting the failure without ending the process
GitInitCatch_Continue ==
    /\ Log("error: initializing git repository")
    /\ pc' = "complete"
    /\ UNCHANGED exitCode

\* lines 208-211: catch of git.init()
GitInitCatch == Exit(1, "error: initializing git repository")

\* lines 207-211: git.init() settles; it creates .git where there is none
\* and leaves an existing repository with its history
GitInitDone(ok) ==
    /\ pc = "gitInit"
    /\ ~sigintPending
    /\ IF ok
       THEN /\ fs' = [fs EXCEPT ![projectName].git =
                         IF @ = "none" THEN "fresh" ELSE @]
            /\ pc' = "complete"
            /\ UNCHANGED <<console, exitCode>>
       ELSE /\ GitInitCatch
            /\ UNCHANGED fs
    /\ UNCHANGED <<other, argv, options, template, projectName, authorName, remote,
                   dirIdx, invoked, sigintPending, sigints>>

\* lines 214-217: the summary; run() returns and the process ends with the
\* default exit code
Completion ==
    /\ pc = "complete"
    /\ Exit(0, "all done")
    /\ UNCHANGED <<other, argv, options, template, projectName, authorName, remote,
                   fs, dirIdx, invoked, sigintPending, sigints>>

\* lines 219-224: run() rejected; the handler prints the error and exits
RunCatch ==
    /\ pc = "rejected"
    /\ ~sigintPending
    /\ Exit(1, "error: an error occurred")
    /\ UNCHANGED <<other, argv, options, template, projectName, authorName, remote,
                   fs, dirIdx, invoked, sigintPending, sigints>>

----------------------------------------------------------------------------
(* SIGINT, lines 12-16 *)

\* the environment delivers SIGINT to the process
Sigint ==
    /\ pc # "exited"
    /\ sigints < MaxSigints
    /\ sigintPending' = TRUE
    /\ sigints' = sigints + 1
    /\ UNCHANGED <<other, pc, argv, options, template, projectName, authorName,
                   remote, fs, dirIdx, invoked, console, exitCode>>

\* the listener runs when the event loop gets a turn, which it does not
\* while execSync blocks or synchronous code and microtasks run
SigintHandler ==
    /\ sigintPending
    /\ pc \in Suspended
    /\ sigintPending' = FALSE
    /\ Exit(0, "goodbye (SIGINT)")
    /\ UNCHANGED <<other, argv, options, template, projectName, authorName, remote,
                   fs, dirIdx, invoked, sigints>>

----------------------------------------------------------------------------
Next ==
    \/ Start
    \/ \E ok \in BOOLEAN : checkGitInstalled(ok)
    \/ \E ok \in BOOLEAN : checkNpmInstalled(ok)
    \/ ParseOptions
    \/ UseDefaults
    \/ AskTemplate
    \/ \E choice \in DOMAIN templates : AnswerTemplate(choice)
    \/ \E input \in ProjectNames : AnswerProjectName(input)
    \/ \E input \in AuthorNames : AnswerAuthorName(input)
    \/ \E error \in PromptErrors : PromptCatch(error)
    \/ TargetCheck
    \/ \E ok \in BOOLEAN : cloneTemplate(ok)
    \/ \E ok \in BOOLEAN : HistoryStrip(ok)
    \/ customizePackageJson
    \/ installInDir
    \/ \E ok \in BOOLEAN : NpmInstallExit(ok)
    \/ GitInitStart
    \/ \E ok \in BOOLEAN : GitInitDone(ok)
    \/ Completion
    \/ RunCatch
    \/ Sigint
    \/ SigintHandler

Spec == Init /\ [][Next]_vars

----------------------------------------------------------------------------
(* A second instance, lines 179-186 and 51-61 run by another process *)

\* lines 179-186: its target check, and the start of its git.clone
OtherTargetCheck ==
    /\ other.pc = "targetCheck"
    /\ other' = [other EXCEPT !.pc =
                    IF fs[other.projectName].state # "absent"
                    THEN "exited" ELSE "cloning"]
    /\ UNCHANGED <<pc, argv, options, template, projectName, authorName,
                   remote, fs, dirIdx, invoked, console, exitCode,
                   sigintPending, sigints>>

\* lines 55-60: its git.clone settles
OtherCloneSettles(ok) ==
    /\ other.pc = "cloning"
    /\ IF ok
       THEN /\ fs' = [fs EXCEPT ![other.projectName] = ClonedTree(remote)]
            /\ other' = [other EXCEPT !.pc = "cloned"]
       ELSE /\ other' = [other EXCEPT !.pc = "exited"]
            /\ UNCHANGED fs
    /\ UNCHANGED <<pc, argv, options, template, projectName, authorName,
                   remote, dirIdx, invoked, console, exitCode,
                   sigintPending, sigints>>

NextTwo ==
    \/ Next
    \/ OtherTargetCheck
    \/ \E ok \in BOOLEAN : OtherCloneSettles(ok)

SpecTwo == InitTwo /\ [][NextTwo]_vars

----------------------------------------------------------------------------
TypeOK ==
    /\ pc \in {"import", "checkGit", "checkNpm", "parse", "interaction",
               "promptTemplate", "promptName", "promptAuthor", "targetCheck",
               "cloning", "strip", "customize", "install", "npm",
               "gitInitCheck", "gitInit", "complete", "rejected", "exited"}
    /\ exitCode \in {0, 1}
    /\ dirIdx \in 0..Len(InstallDirs)
    /\ sigints \in 0..MaxSigints
    /\ sigintPending \in BOOLEAN

----------------------------------------------------------------------------
(* Vocabulary of the properties *)

Has(seq, x) == \E i \in 1..Len(seq) : seq[i] = x
Last(seq) == seq[Len(seq)]

\* invocations that change the file system
Mutating ==
    {"git clone", "git init", "npm install (root)",
     "npm install (frontend)", "npm install (backend)"}

NoMutationInvoked == \A i \in 1..Len(invoked) : invoked[i] \notin Mutating

\* every entry of the working directory is as it was when the tool started
FsUntouched ==
    \A n \in ProjectNames : fs[n] \in {AbsentTree, PreExistingTree}

TargetCheckRan == Has(invoked, "existsSync projectDir")

FailureMessages ==
    {"error: git not installed", "error: npm not installed",
     "error: cloning repository", "error: installing dependencies",
     "error: initializing git repository",
     "error: directory already exists"}

PromptFailureMessages ==
    {"error: prompt could not be rendered", "goodbye (prompt closed)",
     "error: unexpected prompt error"}

MaterializerInvocations == Mutating \cup {"existsSync projectDir"}

----------------------------------------------------------------------------
\* C1: when the target path exists at the time the target check runs, the
\* process has ended with exit code 1 and nothing was cloned, stripped,
\* rewritten, installed or initialized: the working directory is as it was.
C1_CollisionMutatesNothing ==
    (TargetCheckRan /\ fs[projectName].state = "preexisting") =>
        /\ pc = "exited"
        /\ exitCode = 1
        /\ NoMutationInvoked
        /\ FsUntouched
        /\ fs[projectName] = PreExistingTree

C1_Witness ==
    /\ TargetCheckRan
    /\ fs[projectName] = PreExistingTree
    /\ pc = "exited"
    /\ exitCode = 1

\* C2 as stated: exit code 1 after each listed failure, and exit code 0 only
\* after the summary, a user cancellation of a prompt or an interrupt.
C2_ExitZeroOnlyOnSuccessOrCancel ==
    pc = "exited" =>
        /\ Last(console) \in FailureMessages => exitCode = 1
        /\ exitCode = 0 =>
              Last(console) \in {"all done", "goodbye (prompt closed)",
                                 "goodbye (SIGINT)"}

\* C2 amended: exit code 1 after each listed failure, and exit code 0 only
\* after the summary, a prompt failure of any kind (cancellation, terminal
\* that cannot render, any other prompt error) or an interrupt.
C2_ExitCodes ==
    pc = "exited" =>
        /\ Last(console) \in FailureMessages => exitCode = 1
        /\ exitCode = 0 =>
              Last(console) \in {"all done", "goodbye (SIGINT)"}
                                    \cup PromptFailureMessages

C2_Witness ==
    /\ pc = "exited"
    /\ exitCode = 0
    /\ Last(console) = "error: prompt could not be rendered"

\* C3: once a SIGINT is delivered, the next thing the process does is to
\* print the goodbye and exit with code 0, with no further invocation.
C3_SigintExitsImmediately ==
    [][(sigintPending /\ pc' # pc) =>
          /\ pc' = "exited"
          /\ exitCode' = 0
          /\ Last(console') = "goodbye (SIGINT)"
          /\ invoked' = invoked]_vars

\* C4: after a prompt failure of any kind the process has ended with exit
\* code 0, no Materializer step was invoked and the working directory is as
\* it was.
C4_PromptFailureExitsZero ==
    (\E m \in PromptFailureMessages : Has(console, m)) =>
        /\ pc = "exited"
        /\ exitCode = 0
        /\ \A i \in 1..Len(invoked) : invoked[i] \notin MaterializerInvocations
        /\ FsUntouched

C4_Witness ==
    /\ pc = "exited"
    /\ exitCode = 0
    /\ Last(console) = "error: unexpected prompt error"
    /\ Has(invoked, "prompt authorName")

----------------------------------------------------------------------------
NpmInstalls ==
    {"npm install (root)", "npm install (frontend)", "npm install (backend)"}

IsNpmInstall(x) == x \in NpmInstalls

Warnings ==
    {"warning: no package.json (root)", "warning: no package.json (frontend)",
     "warning: no package.json (backend)"}

IsWarning(x) == x \in Warnings

Prompts == {"prompt template", "prompt projectName", "prompt authorName"}

\* the installs the cloned template calls for, in the order root, frontend,
\* backend
ExpectedInstalls ==
    (IF remote.manifest.kind # "none"
     THEN <<"npm install (root)">> ELSE << >>) \o
    (IF remote.frontend = "manifest"
     THEN <<"npm install (frontend)">> ELSE << >>) \o
    (IF remote.backend = "manifest"
     THEN <<"npm install (backend)">> ELSE << >>)

\* the warnings for the directories that exist and carry no manifest
ExpectedWarnings ==
    (IF remote.manifest.kind = "none"
     THEN <<"warning: no package.json (root)">> ELSE << >>) \o
    (IF remote.frontend = "nomanifest"
     THEN <<"warning: no package.json (frontend)">> ELSE << >>) \o
    (IF remote.backend = "nomanifest"
     THEN <<"warning: no package.json (backend)">> ELSE << >>)

\* installDependencies ran to its end and no install failed
InstallsCompleted ==
    /\ ~argv.skipInstall
    /\ dirIdx = Len(InstallDirs)
    /\ pc \notin {"install", "npm"}
    /\ ~Has(console, "error: installing dependencies")

\* the files the clone produced are where the clone put them
CloneInPlace ==
    /\ fs[projectName].state = "cloned"
    /\ fs[projectName].manifest.kind = remote.manifest.kind
    /\ fs[projectName].frontend = remote.frontend
    /\ fs[projectName].backend = remote.backend

\* C5: with skipInstall unset and every install succeeding, npm install was
\* invoked exactly once for each of root, frontend, backend that exists and
\* holds a manifest, in that order, and for no other directory; each existing
\* directory without a manifest got a warning and the run went on.
C5_InstallsExactlyWhereManifest ==
    InstallsCompleted =>
        /\ SelectSeq(invoked, IsNpmInstall) = ExpectedInstalls
        /\ SelectSeq(console, IsWarning) = ExpectedWarnings
        /\ \A d \in {"root", "frontend", "backend"} :
              d \in fs[projectName].installed <=>
                  Has(ExpectedInstalls, NpmInstallIn(d))

C5_Witness ==
    /\ InstallsCompleted
    /\ Has(console, "all done")
    /\ remote.frontend = "manifest"
    /\ remote.backend = "nomanifest"
    /\ SelectSeq(invoked, IsNpmInstall) =
          <<"npm install (root)", "npm install (frontend)">>
    /\ Has(console, "warning: no package.json (backend)")

\* C6: after an install failure the process has ended with exit code 1, the
\* failed install is the last invocation (no later install, no git init),
\* and the clone and the earlier installs are still on disk.
C6_InstallFailureIsFatal ==
    Has(console, "error: installing dependencies") =>
        /\ pc = "exited"
        /\ exitCode = 1
        /\ Last(invoked) \in NpmInstalls
        /\ ~Has(invoked, "git init")
        /\ CloneInPlace
        /\ fs[projectName].installed =
              {d \in {"root", "frontend", "backend"} :
                  \E i \in 1..(Len(invoked) - 1) : invoked[i] = NpmInstallIn(d)}

C6_Witness ==
    /\ Has(console, "error: installing dependencies")
    /\ Last(invoked) = "npm install (frontend)"
    /\ remote.backend = "manifest"
    /\ argv.gitInit
    /\ fs[projectName].installed = {"root"}
    /\ pc = "exited"

\* C7: with --skip-install no npm install is ever invoked.
C7_SkipInstallInvokesNoInstall ==
    argv.skipInstall => \A i \in 1..Len(invoked) : invoked[i] \notin NpmInstalls

C7_Witness ==
    /\ argv.skipInstall
    /\ Has(console, "all done")
    /\ remote.manifest.kind = "json"
    /\ remote.frontend = "manifest"
    /\ remote.backend = "manifest"

\* C8: with --yes no prompt is ever invoked, and the request the Materializer
\* starts with is template "meter", projectName "bsv-app", authorName "".
C8_YesUsesDefaultsWithoutPrompt ==
    argv.yes =>
        /\ \A i \in 1..Len(invoked) : invoked[i] \notin Prompts
        /\ TargetCheckRan =>
              /\ template = "meter"
              /\ projectName = "bsv-app"
              /\ authorName = ""

C8_Witness ==
    /\ argv.yes
    /\ TargetCheckRan
    /\ Has(invoked, "git clone")
    /\ projectName = "bsv-app"

\* C9: the customization step leaves an absent manifest absent and goes on;
\* of an existing manifest it sets name to projectName, sets author to a
\* non-empty authorName and otherwise leaves author as the template had it,
\* and keeps every other field and every other file; no other step after the
\* clone touches a manifest.
C9_CustomizationFrame ==
    [][IF pc = "customize" /\ pc' # pc
       THEN LET m == fs[projectName].manifest
                m2 == fs'[projectName].manifest
            IN /\ m.kind = "none" =>
                     /\ fs' = fs
                     /\ pc' \in {"install", "gitInitCheck"}
               /\ m.kind = "json" =>
                     /\ m2.kind = "json"
                     /\ "name" \in DOMAIN m2.obj
                     /\ m2.obj["name"] = projectName
                     /\ authorName # "" =>
                           /\ "author" \in DOMAIN m2.obj
                           /\ m2.obj["author"] = authorName
                     /\ authorName = "" =>
                           /\ "author" \in DOMAIN m2.obj <=>
                                 "author" \in DOMAIN m.obj
                           /\ "author" \in DOMAIN m.obj =>
                                 m2.obj["author"] = m.obj["author"]
                     /\ DOMAIN m2.obj \ {"name", "author"} =
                           DOMAIN m.obj \ {"name", "author"}
                     /\ \A k \in DOMAIN m.obj \ {"name", "author"} :
                           m2.obj[k] = m.obj[k]
                     /\ fs' = [fs EXCEPT ![projectName].manifest = m2]
                     /\ pc' \in {"install", "gitInitCheck"}
       ELSE pc = "cloning" \/
            \A n \in ProjectNames : fs'[n].manifest = fs[n].manifest]_vars

C9_Witness ==
    /\ pc \in {"install", "gitInitCheck"}
    /\ authorName = ""
    /\ projectName = "foo"
    /\ remote.manifest.kind = "json"
    /\ "author" \in DOMAIN remote.manifest.obj
    /\ fs[projectName].manifest.obj =
          [k \in {"name", "version", "author"} |->
              IF k = "name" THEN "foo"
              ELSE IF k = "author" THEN "p2ppsr" ELSE "1.0.0"]

\* C10: after a failed git init the process has ended with exit code 1, the
\* summary was not printed, and what the clone, the customization and the
\* installs produced is still on disk.
C10_GitInitFailureIsFatal ==
    Has(console, "error: initializing git repository") =>
        /\ pc = "exited"
        /\ exitCode = 1
        /\ ~Has(console, "all done")
        /\ CloneInPlace
        /\ fs[projectName].git = "none"
        /\ fs[projectName].manifest.kind = "json" =>
              fs[projectName].manifest.obj["name"] = projectName
        /\ fs[projectName].installed =
              {d \in {"root", "frontend", "backend"} :
                  Has(invoked, NpmInstallIn(d))}

C10_Witness ==
    /\ Has(console, "error: initializing git repository")
    /\ pc = "exited"
    /\ argv.gitInit
    /\ fs[projectName].installed = {"root", "backend"}
    /\ fs[projectName].manifest.kind = "json"

----------------------------------------------------------------------------
PreflightInvocations == {"git --version", "npm --version"}

PreflightFailures == {"error: git not installed", "error: npm not installed"}

\* C11: whatever is invoked after the two version checks (a prompt, the
\* target check, clone, install, git init) comes after git --version and
\* npm --version, in that order, and the file system is untouched until both
\* passed; after a failed version check the process has ended with exit
\* code 1 and nothing but version checks was ever invoked.
C11_PreflightFirst ==
    /\ \A i \in 1..Len(invoked) :
          invoked[i] \notin PreflightInvocations =>
              /\ i > 2
              /\ invoked[1] = "git --version"
              /\ invoked[2] = "npm --version"
    /\ Len(invoked) < 3 => FsUntouched
    /\ (\E m \in PreflightFailures : Has(console, m)) =>
          /\ pc = "exited"
          /\ exitCode = 1
          /\ \A i \in 1..Len(invoked) : invoked[i] \in PreflightInvocations
          /\ FsUntouched

C11_Witness ==
    /\ pc = "exited"
    /\ exitCode = 1
    /\ Last(console) = "error: npm not installed"
    /\ invoked = <<"git --version", "npm --version">>

----------------------------------------------------------------------------
\* The Materializer state the process is in: the last step it completed, read
\* off what the process did (where it is, what it invoked, what it printed)
\* and not off its options.
MatState ==
    CASE pc = "exited" /\ Last(console) = "all done" -> "Done"
      [] pc = "exited" /\ Last(console) = "goodbye (SIGINT)" -> "Interrupted"
      [] pc = "exited" /\ Last(console) \notin {"all done", "goodbye (SIGINT)"} ->
            IF TargetCheckRan THEN "Aborted" ELSE "NotStarted"
      [] pc = "rejected" -> "Failed"
      [] pc = "complete" ->
            IF Has(invoked, "git init") THEN "GitInitialized"
            ELSE IF dirIdx > 0 THEN "Installed" ELSE "Customized"
      [] pc \in {"gitInitCheck", "gitInit"} ->
            IF dirIdx > 0 THEN "Installed" ELSE "Customized"
      [] pc \in {"install", "npm"} -> "Customized"
      [] pc = "customize" -> "HistoryStripped"
      [] pc = "strip" -> "Cloned"
      [] pc = "cloning" -> "Checked"
      [] OTHER -> "NotStarted"

\* the moves of the linear state machine, with the options that permit them
LinearMove(s, t) ==
    \/ s = "NotStarted" /\ t = "Checked"
    \/ s = "Checked" /\ t = "Cloned"
    \/ s = "Cloned" /\ t = "HistoryStripped"
    \/ s = "HistoryStripped" /\ t = "Customized"
    \/ s = "Customized" /\ t = "Installed" /\ ~argv.skipInstall
    \/ s = "Customized" /\ t = "GitInitialized"
          /\ argv.skipInstall /\ argv.gitInit
    \/ s = "Customized" /\ t = "Done" /\ argv.skipInstall /\ ~argv.gitInit
    \/ s = "Installed" /\ t = "GitInitialized" /\ argv.gitInit
    \/ s = "Installed" /\ t = "Done" /\ ~argv.gitInit
    \/ s = "GitInitialized" /\ t = "Done"

ErrorMessages == FailureMessages \cup {"error: an error occurred"}

\* C12: the Materializer only moves forward along Checked, Cloned,
\* HistoryStripped, Customized, Installed, GitInitialized, Done, one step at
\* a time; Installed is passed exactly when skipInstall is unset and
\* GitInitialized exactly when gitInit is set; Done is entered with no error
\* reported; a failed step is followed by no other step and ends in Aborted
\* with exit code 1 (a throw of the history strip or of the customization on
\* its way through the rejection of run()); Done and Aborted are final.  The
\* SIGINT listener may end the process from any state.
C12_LinearStateMachine ==
    [][LET s == MatState
           t == MatState'
       IN s # t =>
            /\ s \notin {"Done", "Aborted", "Interrupted"}
            /\ \/ LinearMove(s, t)
               \/ t = "Interrupted"
               \/ t = "Failed" /\ s \in {"Cloned", "HistoryStripped"}
               \/ t = "Aborted" /\ exitCode' = 1
            /\ s = "Failed" => t \in {"Aborted", "Interrupted"}
            /\ t = "Done" =>
                  \A i \in 1..Len(console') : console'[i] \notin ErrorMessages]_vars

C12_Witness ==
    /\ MatState = "Done"
    /\ ~argv.skipInstall
    /\ argv.gitInit
    /\ Has(invoked, "npm install (root)")
    /\ Has(invoked, "git init")
    /\ exitCode = 0

\* C13: no failure leaves the stage that produced it: run() never rejects,
\* so that the handler attached to run() has nothing to report.
C13_NoErrorPropagates ==
    /\ pc # "rejected"
    /\ ~Has(console, "error: an error occurred")

----------------------------------------------------------------------------
\* C14: two instances given the same projectName are never both past the
\* target check with their clone into the same path under way.
C14_OnlyOneInstanceClones ==
    ~ /\ pc = "cloning"
      /\ other.pc = "cloning"
      /\ other.projectName = projectName

----------------------------------------------------------------------------
\* C15: once the clone is invoked, the template of the request is a key of
\* the registry and the location handed to git.clone is the one the registry
\* holds for it, not undefined.
C15_CloneGetsRegistryLocation ==
    Has(invoked, "git clone") =>
        /\ template \in DOMAIN templates
        /\ TemplateUrl(template) # Undefined
        /\ TemplateUrl(template) = templates[template]

\* C16: git init is only started from the step after the installs, with the
\* cloned .git already removed; a freshly initialized .git is never removed
\* or replaced; and when the summary is printed the project holds a .git
\* exactly when --git-init was given, and then the fresh one.
C16_NoInheritedHistory ==
    [][/\ (Has(invoked', "git init") /\ ~Has(invoked, "git init")) =>
             /\ pc = "gitInitCheck"
             /\ fs[projectName].git = "none"
       /\ \A n \in ProjectNames :
             fs[n].git = "fresh" => fs'[n].git = "fresh"
       /\ (pc' = "exited" /\ Last(console') = "all done") =>
             fs'[projectName'].git =
                 IF argv.gitInit THEN "fresh" ELSE "none"]_vars

C16_Witness ==
    /\ pc = "exited"
    /\ Last(console) = "all done"
    /\ argv.gitInit
    /\ fs[projectName].git = "fresh"
    /\ fs[projectName].state = "cloned"

====
